---- MODULE Spec2Model ----
\* nsinit's execCommand (pkg/libcontainer/nsinit/exec.go): the launch of a
\* namespaced child, its pid marker, the cgroup and veth setup, the stdin
\* pipe handshake, the terminal relay and the translation of the wait status.
\* Every external call (pty, os/exec, ioutil, cgroups, network, term) is a
\* step whose outcome is chosen nondeterministically among those the call
\* can produce.
EXTENDS Integers, Sequences, FiniteSets, TLC

\* ---------------------------------------------------------------- state

VARIABLES
    pc,         \* pc[l]: the statement of execCommand call l is about to run
    cfg,        \* cfg[l]: container.Cgroups != nil, container.Network != nil
    entryAttrs, \* entryAttrs[l]: the host terminal's flags when call l began
    ret,        \* ret[l]: the (int, error) pair execCommand returned
    err,        \* err[l]: the error held between a failed step and its return
    defers,     \* defers[l]: the deferred calls registered so far, in order
    calls,      \* calls[l]: the external calls made so far, in order
    pid,        \* pid[l]: command.Process.Pid, 0 before Start
    child,      \* child[l]: "none", "waiting" (reads stdin), "released", "dead"
    ws,         \* ws[l]: the child's syscall.WaitStatus once it is dead
    pipe,       \* pipe[l]: inPipe, "none", "open" or "closed"
    written,    \* written[l]: the bytes written to inPipe
    got,        \* got[l]: what the child read from stdin up to end-of-data
    copyOut,    \* copyOut[l]: the task io.Copy(os.Stdout, master)
    copyIn,     \* copyIn[l]: the task io.Copy(master, os.Stdin)
    state,      \* state[l]: the *term.State setupWindow returned
    name1,      \* name1[l]: host side veth name
    name2,      \* name2[l]: container side veth name
    vethPair,   \* vethPair[l]: the name initializeContainerVeth returned
    nsIface,    \* nsIface[l]: the interface moved into the child's namespace
    pidFile,    \* the file .nspid of the working directory
    termAttrs,  \* the termios flags of the host's stdin
    hostIfaces, \* the interfaces of the host's network namespace
    bridged,    \* the interfaces whose master is the bridge
    upIfaces    \* the interfaces that are administratively up

vars == <<pc, cfg, entryAttrs, ret, err, defers, calls, pid, child, ws, pipe, written, got,
          copyOut, copyIn, state, name1, name2, vethPair, nsIface,
          pidFile, termAttrs, hostIfaces, bridged, upIfaces>>

netVars == <<name1, name2, vethPair, nsIface, hostIfaces, bridged, upIfaces>>
termVars == <<state, termAttrs>>
relayVars == <<copyOut, copyIn>>
childVars == <<pid, child, ws, got>>
pipeVars == <<pipe, written>>

\* ---------------------------------------------------------------- bounds

\* The calls of execCommand the state is kept for. They share the working
\* directory (.nspid), the host terminal and the host's interfaces; Spec runs
\* the first of them alone.
Launches == {1, 2}

\* The process ids the kernel may hand to a started child.
Pids == {7, 42}

\* The exit codes a child may terminate with, and the signals that may end it.
ExitCodes == {0, 1, 17, 255}
Signals == {9, 15}

\* The hex suffixes GenerateRandomName may draw.
Suffixes == {<<"0", "0", "0", "0">>, <<"a", "f", "3", "9">>}

\* How many interfaces with a generated name the host may hold beforehand.
MaxHostIfaces == 1

\* The termios flag sets the host terminal may start with.
InitialAttrs == {{"ECHO", "ICANON", "ISIG", "ICRNL", "OPOST"}, {"ICANON", "CS8"}}

\* ---------------------------------------------------------------- values

None == <<>>
NoError == "nil"
NoFile == [exists |-> FALSE, data |-> <<>>]
NoReturn == [code |-> 0, err |-> "unreturned"]
NoState == {"nil"}
Prefix == <<"d", "o", "c", "k">>
SuffixLen == 4
SIGKILL == 9

\* The proper prefixes of a byte sequence: what a failed or short write leaves.
ProperPrefixes(s) == {SubSeq(s, 1, k) : k \in 0..(Len(s) - 1)}

\* fmt.Sprint(pid): the decimal digits of a positive integer.
RECURSIVE Sprint(_)
Sprint(n) == IF n < 10 THEN <<n>> ELSE Sprint(n \div 10) \o <<n % 10>>

\* The integer a sequence of decimal digits denotes (-1 for no digits).
RECURSIVE Atoi(_)
Atoi(s) ==
    IF s = <<>> THEN -1
    ELSE IF Len(s) = 1 THEN s[1]
    ELSE 10 * Atoi(SubSeq(s, 1, Len(s) - 1)) + s[Len(s)]

\* utils.GenerateRandomName("dock", 4): the prefix and a random hex suffix.
GenerateRandomName(suffix) == Prefix \o SubSeq(suffix, 1, SuffixLen)

\* syscall.WaitStatus of a child that exited with a code, or died of a signal.
ExitedWith(code) == code * 256
SignaledWith(sig) == sig

\* syscall.WaitStatus.ExitStatus(): the exit code, -1 unless the child exited.
ExitStatus(w) == IF w % 128 = 0 THEN (w \div 256) % 256 ELSE -1

\* term.MakeRaw: the flags cleared and set when switching to raw mode.
MakeRaw(attrs) == (attrs \ {"ECHO", "ICANON", "ISIG", "ICRNL", "OPOST"}) \cup {"CS8"}

\* Whether an external call was made by call l.
Called(l, c) == \E i \in 1..Len(calls[l]) : calls[l][i] = c
CountOf(l, c) == Cardinality({i \in 1..Len(calls[l]) : calls[l][i] = c})

\* ---------------------------------------------------------------- steps

Log(l, c) == calls' = [calls EXCEPT ![l] = Append(@, c)]
Goto(l, p) == pc' = [pc EXCEPT ![l] = p]

\* return code, e: the result is fixed, then the deferred calls run.
Return(l, code, e) ==
    /\ ret' = [ret EXCEPT ![l] = [code |-> code, err |-> e]]
    /\ pc' = [pc EXCEPT ![l] = IF defers[l] = <<>> THEN "done" ELSE "defers"]

Init ==
    /\ pc = [l \in Launches |-> "idle"]
    /\ cfg = [l \in Launches |-> [cgroups |-> FALSE, network |-> FALSE]]
    /\ entryAttrs = [l \in Launches |-> {}]
    /\ ret = [l \in Launches |-> NoReturn]
    /\ err = [l \in Launches |-> NoError]
    /\ defers = [l \in Launches |-> <<>>]
    /\ calls = [l \in Launches |-> <<>>]
    /\ pid = [l \in Launches |-> 0]
    /\ child = [l \in Launches |-> "none"]
    /\ ws = [l \in Launches |-> 0]
    /\ pipe = [l \in Launches |-> "none"]
    /\ written = [l \in Launches |-> <<>>]
    /\ got = [l \in Launches |-> None]
    /\ copyOut = [l \in Launches |-> "none"]
    /\ copyIn = [l \in Launches |-> "none"]
    /\ state = [l \in Launches |-> NoState]
    /\ name1 = [l \in Launches |-> None]
    /\ name2 = [l \in Launches |-> None]
    /\ vethPair = [l \in Launches |-> None]
    /\ nsIface = [l \in Launches |-> None]
    /\ pidFile = NoFile
    /\ termAttrs \in InitialAttrs
    /\ hostIfaces \in {h \in SUBSET {GenerateRandomName(s) : s \in Suffixes} :
                          Cardinality(h) <= MaxHostIfaces}
    /\ bridged = {}
    /\ upIfaces = {}

\* execCommand is called with a container configuration.
Call(l) ==
    /\ pc[l] = "idle"
    /\ \E cg \in BOOLEAN, nw \in BOOLEAN :
        cfg' = [cfg EXCEPT ![l] = [cgroups |-> cg, network |-> nw]]
    /\ entryAttrs' = [entryAttrs EXCEPT ![l] = termAttrs]
    /\ Goto(l, "console")
    /\ UNCHANGED <<ret, err, defers, calls, pid, child, ws, pipe, written, got,
                   copyOut, copyIn, state, name1, name2, vethPair, nsIface,
                   pidFile, termAttrs, hostIfaces, bridged, upIfaces>>

\* master, console, err := createMasterAndConsole()
CreateMasterAndConsole(l) ==
    /\ pc[l] = "console"
    /\ \/ /\ Log(l, "createMasterAndConsole")
          /\ Goto(l, "stdinpipe")
          /\ UNCHANGED ret
       \/ /\ \E e \in {"open /dev/ptmx", "ptsname", "unlockpt"} : Return(l, -1, e)
          /\ Log(l, "createMasterAndConsole!")
    /\ UNCHANGED <<cfg, entryAttrs, err, defers, pid, child, ws, pipe, written, got,
                   copyOut, copyIn, state, name1, name2, vethPair, nsIface,
                   pidFile, termAttrs, hostIfaces, bridged, upIfaces>>

\* inPipe, err := command.StdinPipe()
StdinPipe(l) ==
    /\ pc[l] = "stdinpipe"
    /\ \/ /\ Log(l, "StdinPipe")
          /\ pipe' = [pipe EXCEPT ![l] = "open"]
          /\ Goto(l, "start")
          /\ UNCHANGED ret
       \/ /\ Log(l, "StdinPipe!")
          /\ Return(l, -1, "pipe")
          /\ UNCHANGED pipe
    /\ UNCHANGED <<cfg, entryAttrs, err, defers, pid, child, ws, written, got,
                   copyOut, copyIn, state, name1, name2, vethPair, nsIface,
                   pidFile, termAttrs, hostIfaces, bridged, upIfaces>>

\* The pids of the children that are alive.
LivePids == {pid[l] : l \in {k \in Launches : child[k] \in {"waiting", "released"}}}

\* command.Start(): the child runs and blocks reading its stdin; a failed
\* Start closes the descriptors of the command, the pipe's write end included.
Start(l) ==
    /\ pc[l] = "start"
    /\ \/ /\ \E p \in Pids \ LivePids : pid' = [pid EXCEPT ![l] = p]
          /\ child' = [child EXCEPT ![l] = "waiting"]
          /\ Log(l, "Start")
          /\ Goto(l, "writePidFile")
          /\ UNCHANGED <<ret, pipe>>
       \/ /\ Log(l, "Start!")
          /\ pipe' = [pipe EXCEPT ![l] = "closed"]
          /\ Return(l, -1, "start")
          /\ UNCHANGED <<pid, child>>
    /\ UNCHANGED <<cfg, entryAttrs, err, defers, ws, written, got,
                   copyOut, copyIn, state, name1, name2, vethPair, nsIface,
                   pidFile, termAttrs, hostIfaces, bridged, upIfaces>>

\* ioutil.WriteFile(".nspid", []byte(fmt.Sprint(pid)), 0655): the file is
\* opened with O_CREATE|O_TRUNC, written and closed. A failed open leaves the
\* directory as it was; a failed or short write leaves a truncated file.
WriteFileOutcomes(data) ==
    {[ok |-> TRUE, file |-> [exists |-> TRUE, data |-> data]]}
    \cup {[ok |-> FALSE, file |-> pidFile]}
    \cup {[ok |-> FALSE, file |-> [exists |-> TRUE, data |-> d]] :
            d \in ProperPrefixes(data)}

\* WritePidFile without the deferred deletePidFile.
WritePidFileNotDeferred(l) ==
    /\ pc[l] = "writePidFile"
    /\ \E o \in WriteFileOutcomes(Sprint(pid[l])) :
        /\ pidFile' = o.file
        /\ IF o.ok
           THEN /\ Log(l, "writePidFile")
                /\ Goto(l, "cgroups")
                /\ UNCHANGED err
           ELSE /\ Log(l, "writePidFile!")
                /\ err' = [err EXCEPT ![l] = "pidfile"]
                /\ Goto(l, "kill")
    /\ UNCHANGED <<cfg, entryAttrs, ret, defers, childVars, pipeVars, relayVars,
                   termVars, netVars>>

\* if err := writePidFile(command); err != nil { Kill; return -1, err }
\* defer deletePidFile()
WritePidFile(l) ==
    /\ pc[l] = "writePidFile"
    /\ \E o \in WriteFileOutcomes(Sprint(pid[l])) :
        /\ pidFile' = o.file
        /\ IF o.ok
           THEN /\ Log(l, "writePidFile")
                /\ defers' = [defers EXCEPT ![l] = Append(@, "deletePidFile")]
                /\ Goto(l, "cgroups")
                /\ UNCHANGED err
           ELSE /\ Log(l, "writePidFile!")
                /\ err' = [err EXCEPT ![l] = "pidfile"]
                /\ Goto(l, "kill")
                /\ UNCHANGED defers
    /\ UNCHANGED <<cfg, entryAttrs, ret, childVars, pipeVars, relayVars, termVars, netVars>>

\* command.Process.Kill(); return -1, err
\* The signal ends a child that is alive; on a dead child Kill fails and the
\* failure is dropped.
Kill(l) ==
    /\ pc[l] = "kill"
    /\ Log(l, "Kill")
    /\ IF child[l] \in {"waiting", "released"}
       THEN /\ child' = [child EXCEPT ![l] = "dead"]
            /\ ws' = [ws EXCEPT ![l] = SignaledWith(SIGKILL)]
       ELSE UNCHANGED <<child, ws>>
    /\ Return(l, -1, err[l])
    /\ UNCHANGED <<cfg, entryAttrs, err, defers, pid, got, pipeVars, relayVars, termVars,
                   netVars, pidFile>>

\* Cgroups with the limits applied too late: the branch is passed without the
\* call, as if Apply had been moved behind the network setup.
CgroupsNotApplied(l) ==
    /\ pc[l] = "cgroups"
    /\ Goto(l, "network")
    /\ UNCHANGED <<cfg, entryAttrs, ret, err, defers, calls, childVars, pipeVars,
                   relayVars, termVars, netVars, pidFile>>

\* Cgroups with the error of Apply dropped: a failed Apply is followed by the
\* network setup.
CgroupsFailureIgnored(l) ==
    /\ pc[l] = "cgroups"
    /\ IF cfg[l].cgroups
       THEN \/ Log(l, "Apply")
            \/ Log(l, "Apply!")
       ELSE UNCHANGED calls
    /\ Goto(l, "network")
    /\ UNCHANGED <<cfg, entryAttrs, ret, err, defers, childVars, pipeVars,
                   relayVars, termVars, netVars, pidFile>>

\* if container.Cgroups != nil { if err := Cgroups.Apply(pid); err != nil {
\*     Kill; return -1, err } }
Cgroups(l) ==
    /\ pc[l] = "cgroups"
    /\ IF cfg[l].cgroups
       THEN \/ /\ Log(l, "Apply")
               /\ Goto(l, "network")
               /\ UNCHANGED err
            \/ /\ Log(l, "Apply!")
               /\ err' = [err EXCEPT ![l] = "cgroups"]
               /\ Goto(l, "kill")
       ELSE /\ Goto(l, "network")
            /\ UNCHANGED <<calls, err>>
    /\ UNCHANGED <<cfg, entryAttrs, ret, defers, childVars, pipeVars, relayVars, termVars,
                   netVars, pidFile>>

\* NoNetwork with inPipe.Close() inside the network branch: without a
\* network section the pipe stays open.
NoNetworkLeavesPipeOpen(l) ==
    /\ pc[l] = "network"
    /\ ~cfg[l].network
    /\ Goto(l, "copyOut")
    /\ UNCHANGED <<cfg, entryAttrs, ret, err, defers, calls, childVars, pipeVars,
                   relayVars, termVars, netVars, pidFile>>

\* if container.Network != nil { ... } with no network section
NoNetwork(l) ==
    /\ pc[l] = "network"
    /\ ~cfg[l].network
    /\ Goto(l, "close")
    /\ UNCHANGED <<cfg, entryAttrs, ret, err, defers, calls, childVars, pipeVars, relayVars,
                   termVars, netVars, pidFile>>

\* createVethPair: name1, err = utils.GenerateRandomName("dock", 4)
GenerateName1(l) ==
    /\ pc[l] = "network"
    /\ cfg[l].network
    /\ \/ /\ \E s \in Suffixes : name1' = [name1 EXCEPT ![l] = GenerateRandomName(s)]
          /\ Log(l, "GenerateRandomName")
          /\ Goto(l, "name2")
          /\ UNCHANGED ret
       \/ /\ Log(l, "GenerateRandomName!")
          /\ Return(l, -1, "rand")
          /\ UNCHANGED name1
    /\ UNCHANGED <<cfg, entryAttrs, err, defers, childVars, pipeVars, relayVars, termVars,
                   name2, vethPair, nsIface, hostIfaces, bridged, upIfaces, pidFile>>

\* createVethPair: name2, err = utils.GenerateRandomName("dock", 4)
GenerateName2(l) ==
    /\ pc[l] = "name2"
    /\ \/ /\ \E s \in Suffixes : name2' = [name2 EXCEPT ![l] = GenerateRandomName(s)]
          /\ Log(l, "GenerateRandomName")
          /\ Goto(l, "createVeth")
          /\ UNCHANGED ret
       \/ /\ Log(l, "GenerateRandomName!")
          /\ Return(l, -1, "rand")
          /\ UNCHANGED name2
    /\ UNCHANGED <<cfg, entryAttrs, err, defers, childVars, pipeVars, relayVars, termVars,
                   name1, vethPair, nsIface, hostIfaces, bridged, upIfaces, pidFile>>

\* network.CreateVethPair reports "exists" when a name is taken.
Collides(l) ==
    \/ name1[l] = name2[l]
    \/ name1[l] \in hostIfaces
    \/ name2[l] \in hostIfaces

\* createVethPair: if err = network.CreateVethPair(name1, name2); err != nil
\* { return }; the error reaches execCommand, which returns -1, err.
CreateVethPair(l) ==
    /\ pc[l] = "createVeth"
    /\ \/ /\ ~Collides(l)
          /\ hostIfaces' = hostIfaces \cup {name1[l], name2[l]}
          /\ Log(l, "CreateVethPair")
          /\ Goto(l, "setMaster")
          /\ UNCHANGED ret
       \/ /\ Log(l, "CreateVethPair!")
          /\ Return(l, -1, IF Collides(l) THEN "exists" ELSE "veth")
          /\ UNCHANGED hostIfaces
    /\ UNCHANGED <<cfg, entryAttrs, err, defers, childVars, pipeVars, relayVars, termVars,
                   name1, name2, vethPair, nsIface, bridged, upIfaces, pidFile>>

\* network.SetInterfaceMaster(name1, bridge)
SetInterfaceMaster(l) ==
    /\ pc[l] = "setMaster"
    /\ \/ /\ bridged' = bridged \cup {name1[l]}
          /\ Log(l, "SetInterfaceMaster")
          /\ Goto(l, "interfaceUp")
          /\ UNCHANGED ret
       \/ /\ Log(l, "SetInterfaceMaster!")
          /\ Return(l, -1, "master")
          /\ UNCHANGED bridged
    /\ UNCHANGED <<cfg, entryAttrs, err, defers, childVars, pipeVars, relayVars, termVars,
                   name1, name2, vethPair, nsIface, hostIfaces, upIfaces, pidFile>>

\* network.InterfaceUp(name1)
InterfaceUp(l) ==
    /\ pc[l] = "interfaceUp"
    /\ \/ /\ upIfaces' = upIfaces \cup {name1[l]}
          /\ Log(l, "InterfaceUp")
          /\ Goto(l, "setNamespace")
          /\ UNCHANGED ret
       \/ /\ Log(l, "InterfaceUp!")
          /\ Return(l, -1, "up")
          /\ UNCHANGED upIfaces
    /\ UNCHANGED <<cfg, entryAttrs, err, defers, childVars, pipeVars, relayVars, termVars,
                   name1, name2, vethPair, nsIface, hostIfaces, bridged, pidFile>>

\* network.SetInterfaceInNamespacePid(name2, nspid); return name2, nil
SetInterfaceInNamespacePid(l) ==
    /\ pc[l] = "setNamespace"
    /\ \/ /\ hostIfaces' = hostIfaces \ {name2[l]}
          /\ nsIface' = [nsIface EXCEPT ![l] = name2[l]]
          /\ vethPair' = [vethPair EXCEPT ![l] = name2[l]]
          /\ Log(l, "SetInterfaceInNamespacePid")
          /\ Goto(l, "send")
          /\ UNCHANGED ret
       \/ /\ Log(l, "SetInterfaceInNamespacePid!")
          /\ Return(l, -1, "setns")
          /\ UNCHANGED <<hostIfaces, nsIface, vethPair>>
    /\ UNCHANGED <<cfg, entryAttrs, err, defers, childVars, pipeVars, relayVars, termVars,
                   name1, name2, bridged, upIfaces, pidFile>>

\* sendVethName: fmt.Fprint(pipe, name), its error dropped. The write puts
\* all of the name in the pipe, or fails after a proper prefix of it.
SendVethName(l) ==
    /\ pc[l] = "send"
    /\ \/ /\ written' = [written EXCEPT ![l] = @ \o vethPair[l]]
          /\ Log(l, "Write")
       \/ /\ \E d \in ProperPrefixes(vethPair[l]) :
                written' = [written EXCEPT ![l] = @ \o d]
          /\ Log(l, "Write!")
    /\ Goto(l, "close")
    /\ UNCHANGED <<cfg, entryAttrs, ret, err, defers, childVars, pipe, relayVars, termVars,
                   netVars, pidFile>>

\* ClosePipe with the close left to command.Wait(): the pipe is still open
\* when the relay is attached.
ClosePipeLeftToWait(l) ==
    /\ pc[l] = "close"
    /\ Goto(l, "copyOut")
    /\ UNCHANGED <<cfg, entryAttrs, ret, err, defers, calls, childVars, pipeVars,
                   relayVars, termVars, netVars, pidFile>>

\* inPipe.Close()
ClosePipe(l) ==
    /\ pc[l] = "close"
    /\ pipe' = [pipe EXCEPT ![l] = "closed"]
    /\ Log(l, "Close")
    /\ Goto(l, "copyOut")
    /\ UNCHANGED <<cfg, entryAttrs, ret, err, defers, childVars, written, relayVars, termVars,
                   netVars, pidFile>>

\* go io.Copy(os.Stdout, master)
StartCopyOut(l) ==
    /\ pc[l] = "copyOut"
    /\ copyOut' = [copyOut EXCEPT ![l] = "running"]
    /\ Log(l, "go Copy(stdout, master)")
    /\ Goto(l, "copyIn")
    /\ UNCHANGED <<cfg, entryAttrs, ret, err, defers, childVars, pipeVars, copyIn, termVars,
                   netVars, pidFile>>

\* go io.Copy(master, os.Stdin)
StartCopyIn(l) ==
    /\ pc[l] = "copyIn"
    /\ copyIn' = [copyIn EXCEPT ![l] = "running"]
    /\ Log(l, "go Copy(master, stdin)")
    /\ Goto(l, "getWinsize")
    /\ UNCHANGED <<cfg, entryAttrs, ret, err, defers, childVars, pipeVars, copyOut, termVars,
                   netVars, pidFile>>

\* setupWindow: ws, err := term.GetWinsize(os.Stdin.Fd())
GetWinsize(l) ==
    /\ pc[l] = "getWinsize"
    /\ \/ /\ Log(l, "GetWinsize")
          /\ Goto(l, "setWinsize")
          /\ UNCHANGED err
       \/ /\ Log(l, "GetWinsize!")
          /\ err' = [err EXCEPT ![l] = "getwinsize"]
          /\ Goto(l, "kill")
    /\ UNCHANGED <<cfg, entryAttrs, ret, defers, childVars, pipeVars, relayVars, termVars,
                   netVars, pidFile>>

\* setupWindow: term.SetWinsize(master.Fd(), ws)
SetWinsize(l) ==
    /\ pc[l] = "setWinsize"
    /\ \/ /\ Log(l, "SetWinsize")
          /\ Goto(l, "setRaw")
          /\ UNCHANGED err
       \/ /\ Log(l, "SetWinsize!")
          /\ err' = [err EXCEPT ![l] = "setwinsize"]
          /\ Goto(l, "kill")
    /\ UNCHANGED <<cfg, entryAttrs, ret, defers, childVars, pipeVars, relayVars, termVars,
                   netVars, pidFile>>

\* SetRawTerminal handing back the attributes it has just set instead of
\* those it found.
SetRawTerminalLateSnapshot(l) ==
    /\ pc[l] = "setRaw"
    /\ \/ /\ state' = [state EXCEPT ![l] = MakeRaw(termAttrs)]
          /\ termAttrs' = MakeRaw(termAttrs)
          /\ Log(l, "SetRawTerminal")
          /\ defers' = [defers EXCEPT ![l] = Append(@, "RestoreTerminal")]
          /\ Goto(l, "wait")
          /\ UNCHANGED err
       \/ /\ Log(l, "SetRawTerminal!")
          /\ err' = [err EXCEPT ![l] = "setraw"]
          /\ Goto(l, "kill")
          /\ UNCHANGED <<state, termAttrs, defers>>
    /\ UNCHANGED <<cfg, entryAttrs, ret, childVars, pipeVars, relayVars, netVars,
                   pidFile>>

\* setupWindow: return term.SetRawTerminal(os.Stdin.Fd()), which hands back
\* the attributes it found; then defer term.RestoreTerminal(os.Stdin.Fd(), state)
SetRawTerminal(l) ==
    /\ pc[l] = "setRaw"
    /\ \/ /\ state' = [state EXCEPT ![l] = termAttrs]
          /\ termAttrs' = MakeRaw(termAttrs)
          /\ Log(l, "SetRawTerminal")
          /\ defers' = [defers EXCEPT ![l] = Append(@, "RestoreTerminal")]
          /\ Goto(l, "wait")
          /\ UNCHANGED err
       \/ /\ Log(l, "SetRawTerminal!")
          /\ err' = [err EXCEPT ![l] = "setraw"]
          /\ Goto(l, "kill")
          /\ UNCHANGED <<state, termAttrs, defers>>
    /\ UNCHANGED <<cfg, entryAttrs, ret, childVars, pipeVars, relayVars, netVars, pidFile>>

\* The errors command.Wait() may return: nil for a child that exited with
\* code 0, an *exec.ExitError for any other ending of the child, and the
\* failure of the wait itself.
WaitErrors(l) ==
    {"wait"} \cup
    (IF child[l] = "dead"
     THEN {IF ws[l] = ExitedWith(0) THEN NoError ELSE "ExitError"}
     ELSE {})

\* Wait without the *exec.ExitError test: every non-nil error of Wait is
\* returned as a failure.
WaitAnyErrorFails(l) ==
    /\ pc[l] = "wait"
    /\ \E e \in WaitErrors(l) :
        IF e # NoError
        THEN /\ Log(l, IF e = "ExitError" THEN "Wait" ELSE "Wait!")
             /\ Return(l, -1, e)
        ELSE /\ Log(l, "Wait")
             /\ Return(l, ExitStatus(ws[l]), NoError)
    /\ UNCHANGED <<cfg, entryAttrs, err, defers, childVars, pipeVars, relayVars,
                   termVars, netVars, pidFile>>

\* Wait joining the relay: it returns only once both copy tasks have ended.
WaitJoinsCopyTasks(l) ==
    /\ pc[l] = "wait"
    /\ copyOut[l] = "ended"
    /\ copyIn[l] = "ended"
    /\ \E e \in WaitErrors(l) :
        IF e # NoError /\ e # "ExitError"
        THEN /\ Log(l, "Wait!")
             /\ Return(l, -1, e)
        ELSE /\ Log(l, "Wait")
             /\ Return(l, ExitStatus(ws[l]), NoError)
    /\ UNCHANGED <<cfg, entryAttrs, err, defers, childVars, pipeVars, relayVars,
                   termVars, netVars, pidFile>>

\* if err := command.Wait(); err != nil { if _, ok := err.(*exec.ExitError);
\*     !ok { return -1, err } }
\* return command.ProcessState.Sys().(syscall.WaitStatus).ExitStatus(), nil
Wait(l) ==
    /\ pc[l] = "wait"
    /\ \E e \in WaitErrors(l) :
        IF e # NoError /\ e # "ExitError"
        THEN /\ Log(l, "Wait!")
             /\ Return(l, -1, e)
        ELSE /\ Log(l, "Wait")
             /\ Return(l, ExitStatus(ws[l]), NoError)
    /\ UNCHANGED <<cfg, entryAttrs, err, defers, childVars, pipeVars, relayVars, termVars,
                   netVars, pidFile>>

\* The deferred calls run last registered first, their results dropped:
\* term.RestoreTerminal(os.Stdin.Fd(), state) and os.Remove(".nspid").
RunDeferred(l) ==
    /\ pc[l] = "defers"
    /\ LET d == defers[l][Len(defers[l])] IN
        /\ Log(l, d)
        /\ IF d = "RestoreTerminal"
           THEN termAttrs' = state[l] /\ UNCHANGED pidFile
           ELSE pidFile' = NoFile /\ UNCHANGED termAttrs
    /\ defers' = [defers EXCEPT ![l] = SubSeq(@, 1, Len(@) - 1)]
    /\ Goto(l, IF Len(defers[l]) = 1 THEN "done" ELSE "defers")
    /\ UNCHANGED <<cfg, entryAttrs, ret, err, childVars, pipeVars, relayVars, state, netVars>>

\* ---------------------------------------------------------------- the child
\* and the relay tasks

\* The child's init reads its stdin to end-of-data and goes on with what it
\* read as the name of its interface.
ChildReadsToEnd(l) ==
    /\ child[l] = "waiting"
    /\ pipe[l] = "closed"
    /\ child' = [child EXCEPT ![l] = "released"]
    /\ got' = [got EXCEPT ![l] = written[l]]
    /\ UNCHANGED <<pc, cfg, entryAttrs, ret, err, defers, calls, pid, ws, pipeVars, relayVars,
                   termVars, netVars, pidFile>>

\* The child terminates: it exits with a code or a signal ends it.
ChildTerminates(l) ==
    /\ child[l] \in {"waiting", "released"}
    /\ child' = [child EXCEPT ![l] = "dead"]
    /\ \E w \in {ExitedWith(c) : c \in ExitCodes} \cup {SignaledWith(g) : g \in Signals} :
        ws' = [ws EXCEPT ![l] = w]
    /\ UNCHANGED <<pc, cfg, entryAttrs, ret, err, defers, calls, pid, got, pipeVars, relayVars,
                   termVars, netVars, pidFile>>

\* io.Copy(os.Stdout, master) returns once the child is gone and the pty
\* master reads end-of-data.
CopyOutEnds(l) ==
    /\ copyOut[l] = "running"
    /\ child[l] = "dead"
    /\ copyOut' = [copyOut EXCEPT ![l] = "ended"]
    /\ UNCHANGED <<pc, cfg, entryAttrs, ret, err, defers, calls, childVars, pipeVars, copyIn,
                   termVars, netVars, pidFile>>

\* io.Copy(master, os.Stdin) returns when the host's stdin reaches
\* end-of-data, which may never happen.
CopyInEnds(l) ==
    /\ copyIn[l] = "running"
    /\ copyIn' = [copyIn EXCEPT ![l] = "ended"]
    /\ UNCHANGED <<pc, cfg, entryAttrs, ret, err, defers, calls, childVars, pipeVars, copyOut,
                   termVars, netVars, pidFile>>

\* ---------------------------------------------------------------- specification

Step(l) ==
    \/ Call(l)
    \/ CreateMasterAndConsole(l)
    \/ StdinPipe(l)
    \/ Start(l)
    \/ WritePidFile(l)
    \/ Kill(l)
    \/ Cgroups(l)
    \/ NoNetwork(l)
    \/ GenerateName1(l)
    \/ GenerateName2(l)
    \/ CreateVethPair(l)
    \/ SetInterfaceMaster(l)
    \/ InterfaceUp(l)
    \/ SetInterfaceInNamespacePid(l)
    \/ SendVethName(l)
    \/ ClosePipe(l)
    \/ StartCopyOut(l)
    \/ StartCopyIn(l)
    \/ GetWinsize(l)
    \/ SetWinsize(l)
    \/ SetRawTerminal(l)
    \/ Wait(l)
    \/ RunDeferred(l)
    \/ ChildReadsToEnd(l)
    \/ ChildTerminates(l)
    \/ CopyOutEnds(l)
    \/ CopyInEnds(l)

\* One call of execCommand.
Next == \E l \in {1} : Step(l)

Spec == Init /\ [][Next]_vars

\* ---------------------------------------------------------------- properties

Started(l) == Called(l, "Start")
Returned(l) == pc[l] = "done"
Alive(l) == child[l] \in {"waiting", "released"}
Before(l, a, b) ==
    \A j \in 1..Len(calls[l]) : calls[l][j] = b =>
        \E i \in 1..(j - 1) : calls[l][i] = a

\* The calls of the network primitives, successful or failed.
NetworkCalls ==
    {"CreateVethPair", "CreateVethPair!", "SetInterfaceMaster", "SetInterfaceMaster!",
     "InterfaceUp", "InterfaceUp!", "SetInterfaceInNamespacePid",
     "SetInterfaceInNamespacePid!"}
ChannelCalls == {"Write", "Write!", "Close"}
CleanupCalls == {"Kill", "RestoreTerminal", "deletePidFile"}

\* The failed setup steps and the errors each of them hands up.
SetupErrors ==
    [c \in {"createMasterAndConsole!", "StdinPipe!", "Start!", "writePidFile!",
            "Apply!", "GenerateRandomName!", "CreateVethPair!", "SetInterfaceMaster!",
            "InterfaceUp!", "SetInterfaceInNamespacePid!", "Write!", "GetWinsize!",
            "SetWinsize!", "SetRawTerminal!"} |->
        CASE c = "createMasterAndConsole!" -> {"open /dev/ptmx", "ptsname", "unlockpt"}
          [] c = "StdinPipe!" -> {"pipe"}
          [] c = "Start!" -> {"start"}
          [] c = "writePidFile!" -> {"pidfile"}
          [] c = "Apply!" -> {"cgroups"}
          [] c = "GenerateRandomName!" -> {"rand"}
          [] c = "CreateVethPair!" -> {"exists", "veth"}
          [] c = "SetInterfaceMaster!" -> {"master"}
          [] c = "InterfaceUp!" -> {"up"}
          [] c = "SetInterfaceInNamespacePid!" -> {"setns"}
          [] c = "Write!" -> {"write"}
          [] c = "GetWinsize!" -> {"getwinsize"}
          [] c = "SetWinsize!" -> {"setwinsize"}
          [] c = "SetRawTerminal!" -> {"setraw"}]

\* C1: once Start has succeeded and the marker was written, .nspid holds the
\* child's pid for as long as the child runs, and .nspid does not exist once
\* execCommand has returned, the return after a failed writePidFile included.
C1_PidMarker ==
    \A l \in Launches :
        /\ Called(l, "writePidFile") /\ Alive(l) =>
            pidFile.exists /\ Atoi(pidFile.data) = pid[l]
        /\ Started(l) /\ Returned(l) => ~pidFile.exists

\* The errors of the setup steps that follow Start: the pid-marker write,
\* Cgroups.Apply, the network primitives and setupWindow.
FatalSetupErrors ==
    {"pidfile", "cgroups", "exists", "veth", "master", "up", "setns",
     "getwinsize", "setwinsize", "setraw"}

\* C2: a setup step that fails after the child was started kills the child:
\* execCommand never has returned a setup error with the child it started
\* alive and no kill sent to it.
C2_SetupFailureKills ==
    \A l \in Launches :
        Started(l) /\ Returned(l) /\ ret[l].err \in FatalSetupErrors /\ Alive(l)
            => Called(l, "Kill")

\* C3: with cgroups and networking configured, Cgroups.Apply has returned
\* successfully before the first network primitive is called and before the
\* control channel is written or closed.
C3_CgroupsBeforeNetwork ==
    \A l \in Launches :
        cfg[l].cgroups /\ cfg[l].network =>
            \A c \in NetworkCalls \cup ChannelCalls : Before(l, "Apply", c)

C3_Witness ==
    /\ cfg[1].cgroups /\ cfg[1].network
    /\ Called(1, "SetInterfaceInNamespacePid")
    /\ Called(1, "Write")
    /\ Called(1, "Close")

\* C4: the control channel is closed at most once, it is closed only after
\* the veth name was written in full when networking is configured, and
\* nothing is written to it after the close, a failed or partial write in
\* sendVethName included.
C4_ChannelProtocol ==
    \A l \in Launches :
        /\ CountOf(l, "Close") <= 1
        /\ Called(l, "Close") /\ cfg[l].network => written[l] = name2[l]
        /\ \A i, j \in 1..Len(calls[l]) :
            calls[l][i] = "Close" /\ calls[l][j] \in {"Write", "Write!"} => j < i

\* C5: a started child that blocks reading the control channel is released:
\* execCommand never has returned with the channel's write end not closed
\* and the child still waiting on it.
C5_ChildReleased ==
    \A l \in Launches :
        Started(l) /\ Returned(l) => pipe[l] = "closed" \/ child[l] # "waiting"

\* C6: after a fully successful setup the result is decided by the wait: a
\* child that terminated with exit status s in 0..255 gives (s, nil), and a
\* wait that fails for another reason gives (-1, that error).
C6_ExitStatus ==
    \A l \in Launches :
        Returned(l) /\ Called(l, "SetRawTerminal") =>
            /\ \A s \in 0..255 :
                Called(l, "Wait") /\ ws[l] = ExitedWith(s) =>
                    ret[l] = [code |-> s, err |-> NoError]
            /\ Called(l, "Wait!") => ret[l] = [code |-> -1, err |-> "wait"]
            /\ Called(l, "Wait") \/ Called(l, "Wait!")

C6_Witness ==
    /\ Returned(1)
    /\ Called(1, "Wait")
    /\ ws[1] = ExitedWith(17)
    /\ ret[1] = [code |-> 17, err |-> NoError]

\* C7: a setup step that fails aborts the launch with its own error:
\* execCommand returns (-1, e) with e the error of the failed step, and no
\* later setup step is executed.
C7_StepErrorAborts ==
    \A l \in Launches :
        \A i \in 1..Len(calls[l]) :
            calls[l][i] \in DOMAIN SetupErrors =>
                /\ \A j \in (i + 1)..Len(calls[l]) : calls[l][j] \in CleanupCalls
                /\ Returned(l) =>
                    ret[l].code = -1 /\ ret[l].err \in SetupErrors[calls[l][i]]

\* C8 as stated: without a network section no network primitive is called,
\* nothing is written to the channel, and the channel is closed exactly once
\* on every path on which Start succeeded.
C8_ClosedOnEveryPath ==
    \A l \in Launches :
        Started(l) /\ ~cfg[l].network =>
            /\ \A c \in NetworkCalls \cup {"Write", "Write!"} : ~Called(l, c)
            /\ written[l] = <<>>
            /\ Returned(l) => CountOf(l, "Close") = 1

\* C8, amended: without a network section no network primitive is called and
\* nothing is written to the channel; the channel is closed exactly once on
\* every path on which Start, the pid-marker write and Cgroups.Apply (when
\* configured) succeeded, as the call that follows them; on the paths where the pid-marker write
\* or Cgroups.Apply failed the channel is not closed and the child is sent a
\* kill.
C8_NoNetwork ==
    \A l \in Launches :
        Started(l) /\ ~cfg[l].network =>
            /\ \A c \in NetworkCalls \cup {"Write", "Write!", "GenerateRandomName",
                                          "GenerateRandomName!"} : ~Called(l, c)
            /\ written[l] = <<>>
            /\ CountOf(l, "Close") <= 1
            /\ \A i \in 1..Len(calls[l]) :
                calls[l][i] = "Close" =>
                    i > 1 /\ calls[l][i - 1] = IF cfg[l].cgroups THEN "Apply" ELSE "writePidFile"
            /\ Returned(l) =>
                IF Called(l, "writePidFile!") \/ Called(l, "Apply!")
                THEN ~Called(l, "Close") /\ Called(l, "Kill")
                ELSE CountOf(l, "Close") = 1
            /\ pc[l] \notin {"writePidFile", "cgroups", "network", "close", "kill",
                             "defers", "done"} => CountOf(l, "Close") = 1

C8_Witness ==
    /\ Started(1) /\ ~cfg[1].network
    /\ Returned(1)
    /\ CountOf(1, "Close") = 1
    /\ pipe[1] = "closed"
    /\ written[1] = <<>>

\* C9: when setupWindow has switched the host terminal to raw mode, the
\* captured state is restored exactly once, after the wait has returned and
\* before execCommand returns, and the terminal's attributes after the return
\* are those it had before the launch; without a snapshot nothing is restored.
C9_TerminalRestored ==
    \A l \in Launches :
        /\ CountOf(l, "RestoreTerminal") <= 1
        /\ Called(l, "RestoreTerminal") =>
            /\ Called(l, "SetRawTerminal")
            /\ Before(l, "Wait", "RestoreTerminal") \/ Before(l, "Wait!", "RestoreTerminal")
        /\ Returned(l) /\ Called(l, "SetRawTerminal") =>
            /\ CountOf(l, "RestoreTerminal") = 1
            /\ termAttrs = entryAttrs[l]
        /\ Called(l, "SetRawTerminal") /\ ~Called(l, "RestoreTerminal") =>
            termAttrs = MakeRaw(entryAttrs[l])

C9_Witness ==
    /\ Returned(1)
    /\ Called(1, "RestoreTerminal")
    /\ entryAttrs[1] # MakeRaw(entryAttrs[1])
    /\ termAttrs = entryAttrs[1]

\* C10: a name collision reported by network.CreateVethPair is retried with
\* new names and never surfaces as a failed launch.
C10_CollisionRetried ==
    \A l \in Launches :
        /\ Returned(l) => ret[l].err # "exists"
        /\ Collides(l) /\ Called(l, "CreateVethPair!") => pc[l] = "network"


\* C11: Cgroups.Apply is called exactly once in a launch with cgroups
\* configured in which Start and the pid-marker write succeeded, and never
\* otherwise; it is not retried, and a failed Apply is followed by no network
\* primitive, channel write, terminal operation or wait.
C11_ApplyOnce ==
    \A l \in Launches :
        LET applies == CountOf(l, "Apply") + CountOf(l, "Apply!") IN
        /\ applies <= 1
        /\ applies = 1 => cfg[l].cgroups /\ Called(l, "Start") /\ Called(l, "writePidFile")
        /\ cfg[l].cgroups /\ Called(l, "writePidFile") /\ pc[l] # "cgroups" => applies = 1
        /\ \A i \in 1..Len(calls[l]) :
            calls[l][i] = "Apply!" =>
                \A j \in (i + 1)..Len(calls[l]) : calls[l][j] \in {"Kill", "deletePidFile"}
        /\ Called(l, "Apply!") => pc[l] \in {"kill", "defers", "done"}

C11_Witness ==
    /\ Returned(1)
    /\ Called(1, "Apply!")
    /\ Called(1, "Kill")
    /\ Called(1, "deletePidFile")


\* C12: the network bootstrap runs its steps in a fixed order, each only
\* after the one before it succeeded: create the veth pair, attach the host
\* side to the bridge, bring it up, move the container side into the child's
\* namespace, write a name to the control channel, close the channel; and the
\* name written is exactly the name of the interface that was moved into the
\* child's namespace, never the host side.
C12_BootstrapOrder ==
    \A l \in Launches :
        cfg[l].network =>
            /\ \A c \in {"SetInterfaceMaster", "SetInterfaceMaster!"} :
                Before(l, "CreateVethPair", c)
            /\ \A c \in {"InterfaceUp", "InterfaceUp!"} :
                Before(l, "SetInterfaceMaster", c)
            /\ \A c \in {"SetInterfaceInNamespacePid", "SetInterfaceInNamespacePid!"} :
                Before(l, "InterfaceUp", c)
            /\ \A c \in {"Write", "Write!"} :
                Before(l, "SetInterfaceInNamespacePid", c)
            /\ Before(l, "Write", "Close")
            /\ Called(l, "Close") =>
                /\ written[l] = nsIface[l]
                /\ nsIface[l] = name2[l]
                /\ written[l] # name1[l]


\* The steps that attach the terminal relay: the two copy tasks and the
\* calls of setupWindow.
RelayCalls ==
    {"go Copy(stdout, master)", "go Copy(master, stdin)", "GetWinsize", "GetWinsize!",
     "SetWinsize", "SetWinsize!", "SetRawTerminal", "SetRawTerminal!"}

\* C13: the terminal relay is attached only after the handshake is complete:
\* no copy task is started and the host terminal is not switched to raw mode
\* until the control channel has been closed, and nothing is written to the
\* channel once the relay is active.
C13_RelayAfterClose ==
    \A l \in Launches :
        /\ \A c \in RelayCalls : Before(l, "Close", c)
        /\ copyOut[l] # "none" \/ copyIn[l] # "none" \/ state[l] # NoState
            => pipe[l] = "closed"
        /\ termAttrs # entryAttrs[l] /\ pc[l] # "idle" => pipe[l] = "closed"
        /\ \A i, j \in 1..Len(calls[l]) :
            calls[l][i] \in RelayCalls /\ calls[l][j] \in {"Write", "Write!"} => j < i

C13_Witness ==
    /\ copyOut[1] = "running"
    /\ copyIn[1] = "running"
    /\ Called(1, "SetRawTerminal")
    /\ Called(1, "Write")
    /\ pipe[1] = "closed"
    /\ pc[1] = "wait"


\* The states of a launch: Configuring from the successful Start until the
\* relay is attached, Running once both copy tasks were started.
Running(l) == Called(l, "go Copy(master, stdin)")
Configuring(l) == Started(l) /\ ~Called(l, "go Copy(stdout, master)")

\* C14: a launch goes Starting, Configuring, Running, then Exited or Failed:
\* a failure while Configuring ends the launch with the child killed, and a
\* launch that is Running (copy tasks active) leaves that state only because
\* the child terminated, never because the launcher kills the child or
\* aborts on its own.
C14_StateMachine ==
    \A l \in Launches :
        /\ Configuring(l) /\ pc[l] \in {"defers", "done"} =>
            /\ ret[l].err # NoError
            /\ Called(l, "Kill")
            /\ ~Alive(l)
        /\ Running(l) => ~Called(l, "Kill") /\ pc[l] # "kill"
        /\ Running(l) /\ pc[l] \in {"defers", "done"} =>
            child[l] = "dead" /\ Called(l, "Wait")


\* The calls of writePidFile, successful or failed.
MarkerWrites(l) == CountOf(l, "writePidFile") + CountOf(l, "writePidFile!")

\* C15 as stated: over one call the pid marker is written at most once and
\* removed exactly once on every exit path, a failure before Start included,
\* never before it was written and never twice.
C15_RemovedOnEveryPath ==
    \A l \in Launches :
        /\ MarkerWrites(l) <= 1
        /\ CountOf(l, "deletePidFile") <= 1
        /\ Before(l, "writePidFile", "deletePidFile")
        /\ Returned(l) => CountOf(l, "deletePidFile") = 1

\* C15, amended: over one call the pid marker is written at most once; it is
\* removed exactly once, after the write, on every exit path that follows a
\* successful writePidFile (setup failure after it, wait error, normal exit),
\* and it is not removed at all on the exit paths before Start succeeded or
\* after a failed writePidFile; it is never removed before it was written
\* and never removed twice.
C15_MarkerWrittenRemoved ==
    \A l \in Launches :
        /\ MarkerWrites(l) <= 1
        /\ CountOf(l, "deletePidFile") <= 1
        /\ Before(l, "writePidFile", "deletePidFile")
        /\ Returned(l) =>
            CountOf(l, "deletePidFile") = (IF Called(l, "writePidFile") THEN 1 ELSE 0)
        /\ Called(l, "deletePidFile") => pc[l] \in {"defers", "done"}

C15_Witness ==
    /\ Returned(1)
    /\ ret[1].err = NoError
    /\ Called(1, "writePidFile")
    /\ CountOf(1, "deletePidFile") = 1
    /\ ~pidFile.exists


\* ---------------------------------------------------------------- fairness

\* The statements of execCommand: each external call returns, and Wait
\* returns once the child is dead. Nothing is assumed of the copy tasks or of
\* the child.
Launcher(l) ==
    \/ Call(l)
    \/ CreateMasterAndConsole(l)
    \/ StdinPipe(l)
    \/ Start(l)
    \/ WritePidFile(l)
    \/ Kill(l)
    \/ Cgroups(l)
    \/ NoNetwork(l)
    \/ GenerateName1(l)
    \/ GenerateName2(l)
    \/ CreateVethPair(l)
    \/ SetInterfaceMaster(l)
    \/ InterfaceUp(l)
    \/ SetInterfaceInNamespacePid(l)
    \/ SendVethName(l)
    \/ ClosePipe(l)
    \/ StartCopyOut(l)
    \/ StartCopyIn(l)
    \/ GetWinsize(l)
    \/ SetWinsize(l)
    \/ SetRawTerminal(l)
    \/ (Wait(l) /\ child[l] = "dead")
    \/ RunDeferred(l)

FairSpec == Spec /\ WF_vars(Launcher(1))

\* C16: execCommand does not wait for the copy tasks: when every external
\* call returns and the child is eventually not running, execCommand
\* returns, whether or not the copy tasks ever end; and no statement of
\* execCommand ends a copy task.
C16_ReturnsWithoutJoin ==
    /\ <>[](~Alive(1)) => <>(pc[1] = "done")
    /\ [][\A l \in Launches :
            (copyOut[l] = "running" /\ copyOut'[l] # "running")
            \/ (copyIn[l] = "running" /\ copyIn'[l] # "running") => pc' = pc]_vars

C16_Witness ==
    /\ Returned(1)
    /\ ret[1].err = NoError
    /\ copyOut[1] = "running"
    /\ copyIn[1] = "running"


\* ---------------------------------------------------------------- two calls

\* execCommand is called with a container that has no network section.
CallNoNetwork(l) == Call(l) /\ ~cfg'[l].network

\* The statements a call of execCommand runs for a container without a
\* network section, and the termination of its child.
StepNoNetwork(l) ==
    \/ CallNoNetwork(l)
    \/ CreateMasterAndConsole(l)
    \/ StdinPipe(l)
    \/ Start(l)
    \/ WritePidFile(l)
    \/ Kill(l)
    \/ Cgroups(l)
    \/ NoNetwork(l)
    \/ ClosePipe(l)
    \/ StartCopyOut(l)
    \/ StartCopyIn(l)
    \/ GetWinsize(l)
    \/ SetWinsize(l)
    \/ SetRawTerminal(l)
    \/ Wait(l)
    \/ RunDeferred(l)
    \/ ChildTerminates(l)

\* Two calls of execCommand interleaved in one working directory, on a host
\* without interfaces of a generated name.
InitTwo == Init /\ hostIfaces = {}
NextTwo == \E l \in Launches : StepNoNetwork(l)
SpecTwo == InitTwo /\ [][NextTwo]_vars

\* C17: with two calls of execCommand interleaved in one working directory,
\* while the child of a call that wrote the marker runs and that call has
\* not begun to return, .nspid exists and holds the pid of a child that is
\* running: no call removes or overwrites the marker of another call whose
\* child is alive.
C17_MarkerOfLiveChild ==
    \A l \in Launches :
        Called(l, "writePidFile") /\ Alive(l) /\ pc[l] \notin {"defers", "done"} =>
            pidFile.exists /\ Atoi(pidFile.data) \in LivePids

====
